---- MODULE Spec2Model ----
(***************************************************************************)
(* A model of the study-schedule optimizer (CalendarOptimizer) and of the  *)
(* email filter of GmailAnalyzer.                                          *)
(*                                                                         *)
(* Conventions                                                             *)
(*  - a datetime on the day of the call is an integer: minutes since that  *)
(*    day's midnight (it may leave 0..1439 when blocks cross midnight);    *)
(*  - a clock text "H:M" is the record [hh, mm, padded]: its two numeric   *)
(*    fields and whether they are written zero-padded to two digits        *)
(*    ("09:00" is padded, "9:00" is not);                                  *)
(*  - a float with one decimal (a score) is the integer number of tenths;  *)
(*  - a duration multiplier is the integer number of hundredths;           *)
(*  - a Python dict is a record, possibly lacking keys; a call's outcome   *)
(*    is [status |-> "returned", value |-> v] or                           *)
(*    [status |-> "raised", exc |-> name].                                 *)
(***************************************************************************)
EXTENDS Integers, Sequences, FiniteSets, TLC

VARIABLES initialized, client, pc, op, args, ret

vars == <<initialized, client, pc, op, args, ret>>

(* ------------------------------ bounds -------------------------------- *)
MaxSubjects == 2

\* longest subject list handed to _order_subjects_by_difficulty on its own
MaxOrder == 3

\* longest block list handed to the score functions on their own
MaxBlocks == 3

\* longest list of arbitrary emails handed to _analyze_email_content
MaxEmails == 2

\* emails without any keyword in a larger inbox
MaxPlain == 21

\* longest event list handed to _calculate_free_time_blocks
MaxEvents == 2

\* most emails of one hour of the day in an inbox
MaxPerHour == 10

(* --------------------------- Python helpers --------------------------- *)
Returned(v) == [status |-> "returned", value |-> v]

Raised(e) == [status |-> "raised", exc |-> e]

\* dict.get(key, default)
Get(d, k, default) == IF k \in DOMAIN d THEN d[k] ELSE default

\* a conversion to whole minutes that rounds to the nearest integer
IntNearest(num, den) == (2 * num + den) \div (2 * den)

\* int(x) of the quotient num/den (den > 0): truncation toward zero
IntTrunc(num, den) == IF num >= 0 THEN num \div den ELSE -((-num) \div den)

\* round(x) to the nearest integer, ties to even, of num/den (den > 0, num >= 0)
RoundHalfEven(num, den) ==
  LET q == num \div den
      r == num % den
  IN  IF 2 * r < den THEN q
      ELSE IF 2 * r > den THEN q + 1
      ELSE IF q % 2 = 0 THEN q ELSE q + 1

\* str.lower() on the subject names of the model
Lower(s) ==
  CASE s = "Math" -> "math"
    [] s = "MATH" -> "math"
    [] s = "PHYSICS" -> "physics"
    [] s = "Physics" -> "physics"
    [] s = "Chemistry" -> "chemistry"
    [] s = "History" -> "history"
    [] s = "Biology" -> "biology"
    [] s = "English" -> "english"
    [] OTHER -> s

\* a parser that accepts any two numbers
strptime_lenient(text) == TRUE

\* datetime.strptime(text, '%H:%M') accepts hours 0..23 and minutes 0..59,
\* written with one or two digits; anything else raises ValueError
strptime_ok(text) == text.hh \in 0..23 /\ text.mm \in 0..59

strptime(text) == text.hh * 60 + text.mm

\* datetime.strftime('%H:%M'): always zero-padded, the date is dropped
strftime(dt) == [hh |-> (dt \div 60) % 24, mm |-> dt % 60, padded |-> TRUE]

\* datetime.hour
HourOf(dt) == (dt \div 60) % 24

(* ------------------------ SubjectDifficultyModel ---------------------- *)
\* the table of _order_subjects_by_difficulty, with .get(name, 5)
order_difficulty_map(name) ==
  CASE name \in {"math", "mathematics", "calculus", "algorithms"} -> 9
    [] name \in {"algebra", "physics", "computer science", "programming"} -> 8
    [] name \in {"chemistry", "philosophy"} -> 7
    [] name \in {"biology", "history", "psychology"} -> 6
    [] name \in {"english", "literature", "sociology"} -> 5
    [] OTHER -> 5

\* a table without the sciences: physics and chemistry fall to the default
difficulty_map_no_sciences(name) ==
  CASE name \in {"math", "mathematics", "calculus", "algorithms"} -> 9
    [] name \in {"algebra", "computer science", "programming"} -> 8
    [] name \in {"philosophy"} -> 7
    [] name \in {"history", "psychology"} -> 6
    [] OTHER -> 5

\* the table of _get_subject_difficulty, with .get(name, 5)
difficulty_map(name) ==
  CASE name \in {"math", "mathematics", "calculus", "algorithms"} -> 9
    [] name \in {"algebra", "physics", "computer science", "programming"} -> 8
    [] name \in {"chemistry", "philosophy"} -> 7
    [] name \in {"biology", "history", "psychology"} -> 6
    [] name \in {"english", "literature", "sociology"} -> 5
    [] OTHER -> 5

\* the key of the sort in _order_subjects_by_difficulty: difficulty_map.get(subject.lower(), 5)
OrderKey(subject) == order_difficulty_map(Lower(subject))

_get_subject_difficulty(subject) == difficulty_map(Lower(subject))

\* an insertion that puts an element in front of its equals (not stable)
RECURSIVE InsertDescendingUnstable(_, _)
InsertDescendingUnstable(sorted, x) ==
  IF sorted = <<>> THEN <<x>>
  ELSE IF OrderKey(Head(sorted)) > OrderKey(x)
       THEN <<Head(sorted)>> \o InsertDescendingUnstable(Tail(sorted), x)
       ELSE <<x>> \o sorted

\* sorted(..., reverse=True) is stable: an element goes behind every element
\* already placed whose key is at least its own
RECURSIVE InsertDescending(_, _)
InsertDescending(sorted, x) ==
  IF sorted = <<>> THEN <<x>>
  ELSE IF OrderKey(Head(sorted)) >= OrderKey(x)
       THEN <<Head(sorted)>> \o InsertDescending(Tail(sorted), x)
       ELSE <<x>> \o sorted

RECURSIVE SortedDescending(_, _)
SortedDescending(done, rest) ==
  IF rest = <<>> THEN done
  ELSE SortedDescending(InsertDescending(done, Head(rest)), Tail(rest))

_order_subjects_by_difficulty(subjects) == SortedDescending(<<>>, subjects)

(* ----------------------------- TimeOfDayModel ------------------------- *)
\* the band table with the 0.9 band tested first
TimeMultiplierSecondBandFirst(hour) ==
  IF (11 <= hour /\ hour <= 15) \/ (17 <= hour /\ hour <= 20) THEN 90
  ELSE IF (9 <= hour /\ hour <= 11) \/ (15 <= hour /\ hour <= 17) THEN 100
  ELSE 80

\* the band table of _adjust_duration_for_time_and_subject, in hundredths
TimeMultiplier(hour) ==
  IF (9 <= hour /\ hour <= 11) \/ (15 <= hour /\ hour <= 17) THEN 100
  ELSE IF (11 <= hour /\ hour <= 15) \/ (17 <= hour /\ hour <= 20) THEN 90
  ELSE 80

\* multiplier *= 0.9 for a subject of difficulty >= 8 from noon on
DifficultyPenalty(hour, multiplier, difficulty) ==
  IF difficulty >= 8
  THEN IF hour < 12 THEN multiplier ELSE (multiplier * 9) \div 10
  ELSE multiplier

_adjust_duration_for_time_and_subject(time, subject, base_duration) ==
  LET hour == HourOf(time)
      multiplier == DifficultyPenalty(hour, TimeMultiplier(hour),
                                      _get_subject_difficulty(subject))
  IN  IntTrunc(base_duration * multiplier, 100)

_is_optimal_time_for_subject(time, subject) ==
  LET hour == HourOf(time)
  IN  IF _get_subject_difficulty(subject) >= 7
      THEN (9 <= hour /\ hour <= 12) \/ (15 <= hour /\ hour <= 17)
      ELSE hour >= 9 /\ hour <= 20

Min(a, b) == IF a <= b THEN a ELSE b

Max(a, b) == IF a >= b THEN a ELSE b

\* a break that is never lengthened after a long study block
_adjust_break_duration_flat(base_break, study_duration) == base_break

\* a lengthened break without the cap of 20 minutes
_adjust_break_duration_uncapped(base_break, study_duration) ==
  IF study_duration >= 90 THEN base_break + 5 ELSE base_break

_adjust_break_duration(base_break, study_duration) ==
  IF study_duration >= 90 THEN Min(base_break + 5, 20) ELSE base_break

_suggest_break_activity(break_duration) ==
  IF break_duration <= 10 THEN "Deep breathing or stretching"
  ELSE IF break_duration <= 20 THEN "Short walk or hydration"
  ELSE "Physical exercise or snack"

(* ------------------------------ ScoreEngine --------------------------- *)
RECURSIVE StudyBlocksOf(_)
\* [b for b in blocks if b['type'] == 'study']
StudyBlocksOf(blocks) ==
  IF blocks = <<>> THEN <<>>
  ELSE IF Head(blocks).type = "study"
       THEN <<Head(blocks)>> \o StudyBlocksOf(Tail(blocks))
       ELSE StudyBlocksOf(Tail(blocks))

RECURSIVE BreakBlocksOf(_)
\* [b for b in blocks if b['type'] == 'break']
BreakBlocksOf(blocks) ==
  IF blocks = <<>> THEN <<>>
  ELSE IF Head(blocks).type = "break"
       THEN <<Head(blocks)>> \o BreakBlocksOf(Tail(blocks))
       ELSE BreakBlocksOf(Tail(blocks))

\* the points one study block adds to duration_score
DurationPoints(duration) ==
  IF 60 <= duration /\ duration <= 120 THEN 10
  ELSE IF 45 <= duration /\ duration <= 150 THEN 8
  ELSE 5

RECURSIVE DurationScoreSum(_)
DurationScoreSum(study_blocks) ==
  IF study_blocks = <<>> THEN 0
  ELSE DurationPoints(Head(study_blocks).duration) + DurationScoreSum(Tail(study_blocks))

\* a clamp that forgets max(0, .)
ClampScoreAbove(num, den) == Min(100 * den, num)

\* min(10, max(0, wellness_score)) on the fraction num/den of tenths (den > 0):
\* the clamped numerator
ClampScore(num, den) == Min(100 * den, Max(0, num))

\* wellness_score in tenths, before clamping, as the fraction num/den:
\*   balance_score  = 10 * (1 - |break/max(study,1) - 0.15| / 0.15)
\*   duration_score = sum of the points / max(number of study blocks, 1)
\*   wellness_score = balance_score * 0.4 + duration_score * 0.6
WellnessFraction(blocks, study_time, break_time) ==
  LET s == Max(study_time, 1)
      dev == 100 * break_time - 15 * s
      absdev == IF dev >= 0 THEN dev ELSE -dev
      study_blocks == StudyBlocksOf(blocks)
      n == Max(Len(study_blocks), 1)
      points == DurationScoreSum(study_blocks)
  IN  [num |-> 40 * n * (15 * s - absdev) + 90 * points * s, den |-> 15 * s * n]

_calculate_wellness_score(blocks, study_time, break_time) ==
  LET w == WellnessFraction(blocks, study_time, break_time)
  IN  RoundHalfEven(ClampScore(w.num, w.den), w.den)

\* the points one study block adds to efficiency: block.get('optimal_time', False)
EfficiencyPoints(block) == IF Get(block, "optimal_time", FALSE) THEN 10 ELSE 6

RECURSIVE EfficiencySum(_)
EfficiencySum(study_blocks) ==
  IF study_blocks = <<>> THEN 0
  ELSE EfficiencyPoints(Head(study_blocks)) + EfficiencySum(Tail(study_blocks))

\* an average taken over every block, breaks included
EfficiencyBlocksAll(blocks) == blocks

\* the blocks _calculate_efficiency_score averages over
EfficiencyBlocks(blocks) == StudyBlocksOf(blocks)

_calculate_efficiency_score(blocks) ==
  LET study_blocks == EfficiencyBlocks(blocks)
  IN  IF study_blocks = <<>> THEN 0
      ELSE RoundHalfEven(10 * EfficiencySum(study_blocks), Len(study_blocks))

_generate_optimization_notes(blocks) ==
  LET study_blocks == StudyBlocksOf(blocks)
      break_blocks == BreakBlocksOf(blocks)
      hard_morning == \E i \in 1..Len(study_blocks) :
                         /\ study_blocks[i].start_time.hh < 12
                         /\ Get(study_blocks[i], "difficulty", 0) >= 8
      activities == {Get(break_blocks[i], "activity", "") : i \in 1..Len(break_blocks)}
  IN  (IF hard_morning THEN <<"Difficult subjects scheduled during peak morning hours">> ELSE <<>>)
      \o (IF 10 * Len(break_blocks) >= 8 * Len(study_blocks)
          THEN <<"Adequate break frequency maintained">> ELSE <<>>)
      \o (IF Cardinality(activities) > 1
          THEN <<"Variety in break activities promotes better recovery">> ELSE <<>>)

\* a rating whose thresholds are met from the threshold value on
schedule_rating_inclusive(wellness_score) ==
  IF wellness_score >= 85 THEN "Excellent"
  ELSE IF wellness_score >= 70 THEN "Good"
  ELSE "Needs Improvement"

schedule_rating(wellness_score) ==
  IF wellness_score > 85 THEN "Excellent"
  ELSE IF wellness_score > 70 THEN "Good"
  ELSE "Needs Improvement"

(* ----------------------------- BlockScheduler ------------------------- *)
StudyBlock(subject, current_datetime, adjusted_duration) ==
  [subject |-> subject,
   start_time |-> strftime(current_datetime),
   end_time |-> strftime(current_datetime + adjusted_duration),
   type |-> "study",
   duration |-> adjusted_duration,
   difficulty |-> _get_subject_difficulty(subject),
   optimal_time |-> _is_optimal_time_for_subject(current_datetime, subject)]

BreakBlock(current_datetime, adjusted_break) ==
  [subject |-> "Break",
   start_time |-> strftime(current_datetime),
   end_time |-> strftime(current_datetime + adjusted_break),
   type |-> "break",
   duration |-> adjusted_break,
   activity |-> _suggest_break_activity(adjusted_break)]

\* current_datetime = end_datetime
AfterStudy(current_datetime, adjusted_duration) == current_datetime + adjusted_duration

\* a loop that forgets current_datetime = break_end
AfterBreakStale(current_datetime, adjusted_break) == current_datetime

\* current_datetime = break_end
AfterBreak(current_datetime, adjusted_break) == current_datetime + adjusted_break

\* a loop that puts a break after every subject, the last one included
RECURSIVE BlockLoopTrailingBreak(_, _, _, _, _, _)
BlockLoopTrailingBreak(order, i, current_datetime, study_duration, break_duration, acc) ==
  IF i > Len(order) THEN acc
  ELSE
    LET subject == order[i]
        adjusted_duration ==
          _adjust_duration_for_time_and_subject(current_datetime, subject, study_duration)
        end_datetime == AfterStudy(current_datetime, adjusted_duration)
        adjusted_break == _adjust_break_duration(break_duration, adjusted_duration)
        acc2 == [study_blocks |-> acc.study_blocks
                                  \o <<StudyBlock(subject, current_datetime, adjusted_duration),
                                       BreakBlock(end_datetime, adjusted_break)>>,
                 total_study_time |-> acc.total_study_time + adjusted_duration,
                 total_break_time |-> acc.total_break_time + adjusted_break]
    IN  BlockLoopTrailingBreak(order, i + 1, AfterBreak(end_datetime, adjusted_break),
                               study_duration, break_duration, acc2)

\* the loop over difficulty_order; i is the 1-based position, acc the three
\* accumulators study_blocks, total_study_time, total_break_time
RECURSIVE BlockLoop(_, _, _, _, _, _)
BlockLoop(order, i, current_datetime, study_duration, break_duration, acc) ==
  IF i > Len(order) THEN acc
  ELSE
    LET subject == order[i]
        adjusted_duration ==
          _adjust_duration_for_time_and_subject(current_datetime, subject, study_duration)
        end_datetime == AfterStudy(current_datetime, adjusted_duration)
        acc1 == [study_blocks |-> Append(acc.study_blocks,
                                         StudyBlock(subject, current_datetime, adjusted_duration)),
                 total_study_time |-> acc.total_study_time + adjusted_duration,
                 total_break_time |-> acc.total_break_time]
        adjusted_break == _adjust_break_duration(break_duration, adjusted_duration)
        acc2 == [study_blocks |-> Append(acc1.study_blocks,
                                         BreakBlock(end_datetime, adjusted_break)),
                 total_study_time |-> acc1.total_study_time,
                 total_break_time |-> acc1.total_break_time + adjusted_break]
    IN  IF i < Len(order)
        THEN BlockLoop(order, i + 1, AfterBreak(end_datetime, adjusted_break),
                       study_duration, break_duration, acc2)
        ELSE BlockLoop(order, i + 1, end_datetime, study_duration, break_duration, acc1)

\* a clock text "HH:MM"
Clock(h, m) == [hh |-> h, mm |-> m, padded |-> TRUE]

\* a clock text "H:MM", hour written with one digit
ClockUnpadded(h, m) == [hh |-> h, mm |-> m, padded |-> FALSE]

DefaultSubjects == <<"Math", "Physics", "Chemistry", "English">>

\* a scheduler that starts after the last existing commitment when that is later
_generate_optimized_blocks_after_events(preferences, existing_events) ==
  LET study_duration == Get(preferences, "study_duration", 90)
      break_duration == Get(preferences, "break_duration", 15)
      subjects == Get(preferences, "subjects", DefaultSubjects)
      start_time_str == Get(preferences, "start_time", Clock(9, 0))
      events == existing_events.list
      start == IF events = <<>> THEN strptime(start_time_str)
               ELSE Max(strptime(start_time_str), strptime(events[Len(events)].end.dateTime))
  IN  IF ~strptime_ok(start_time_str) THEN Raised("ValueError")
      ELSE
        LET difficulty_order == _order_subjects_by_difficulty(subjects)
            acc == BlockLoop(difficulty_order, 1, start, study_duration, break_duration,
                             [study_blocks |-> <<>>, total_study_time |-> 0,
                              total_break_time |-> 0])
            wellness_score == _calculate_wellness_score(acc.study_blocks,
                                acc.total_study_time, acc.total_break_time)
        IN  Returned([study_blocks |-> acc.study_blocks,
                      total_study_time |-> acc.total_study_time,
                      total_break_time |-> acc.total_break_time,
                      wellness_score |-> wellness_score,
                      efficiency_score |-> _calculate_efficiency_score(acc.study_blocks),
                      schedule_rating |-> schedule_rating(wellness_score),
                      optimization_notes |-> _generate_optimization_notes(acc.study_blocks)])

_generate_optimized_blocks(preferences, existing_events) ==
  LET study_duration == Get(preferences, "study_duration", 90)
      break_duration == Get(preferences, "break_duration", 15)
      subjects == Get(preferences, "subjects", DefaultSubjects)
      start_time_str == Get(preferences, "start_time", Clock(9, 0))
  IN  IF ~strptime_ok(start_time_str) THEN Raised("ValueError")
      ELSE
        LET difficulty_order == _order_subjects_by_difficulty(subjects)
            acc == BlockLoop(difficulty_order, 1, strptime(start_time_str),
                             study_duration, break_duration,
                             [study_blocks |-> <<>>, total_study_time |-> 0,
                              total_break_time |-> 0])
            wellness_score == _calculate_wellness_score(acc.study_blocks,
                                acc.total_study_time, acc.total_break_time)
        IN  Returned([study_blocks |-> acc.study_blocks,
                      total_study_time |-> acc.total_study_time,
                      total_break_time |-> acc.total_break_time,
                      wellness_score |-> wellness_score,
                      efficiency_score |-> _calculate_efficiency_score(acc.study_blocks),
                      schedule_rating |-> schedule_rating(wellness_score),
                      optimization_notes |-> _generate_optimization_notes(acc.study_blocks)])

(* --------------------- provider boundary (CalendarOptimizer) ---------- *)
\* The provider environment of one call:
\*   import    : "ok" | "missing"   (from arcadepy import Arcade)
\*   construct : "ok" | "raises"    (Arcade(api_key=...))
\*   fetch     : "list" | "no_output" | "raises"   (client.tools.execute)
\*   events    : the list the provider answers when fetch = "list"
\* self is the object's state [initialized, client].
initialize(self, env) ==
  IF env.import = "missing" \/ env.construct = "raises"
  THEN [value |-> FALSE, self |-> self]
  ELSE [value |-> TRUE, self |-> [initialized |-> TRUE, client |-> "Arcade"]]

_get_existing_events(self, env) ==
  IF self.client = "None" THEN <<>>
  ELSE IF env.fetch = "raises" THEN <<>>
  ELSE IF env.fetch = "list" THEN env.events
  ELSE <<>>

\* Optional[List[Dict]]: None, or a list
None == [none |-> TRUE, list |-> <<>>]

Some(list) == [none |-> FALSE, list |-> list]

_simulate_schedule(preferences) == _generate_optimized_blocks(preferences, None)

\* try: <attempt> except Exception: <handler>; the attempt is evaluated once
TryExcept(attempt, handler) ==
  CHOOSE r \in {IF a.status = "raised" THEN handler ELSE a : a \in {attempt}} : TRUE

_create_with_arcade_toolkit(self, preferences, env) ==
  TryExcept(IF self.client = "None"
            THEN _simulate_schedule(preferences)
            ELSE _generate_optimized_blocks(preferences,
                                            Some(_get_existing_events(self, env))),
            _simulate_schedule(preferences))

\* a create_optimized_schedule that lets the provider's failures through
create_optimized_schedule_strict(self, preferences, env) ==
  LET init == IF self.initialized THEN [value |-> TRUE, self |-> self]
              ELSE initialize(self, env)
  IN  [ret |-> IF ~init.value THEN Raised("ImportError")
               ELSE IF env.fetch = "raises" THEN Raised("Exception")
               ELSE _generate_optimized_blocks(preferences,
                                               Some(_get_existing_events(init.self, env))),
       self |-> init.self]

\* returns the outcome of the call and the object's state after it
create_optimized_schedule(self, preferences, env) ==
  LET init == IF self.initialized THEN [value |-> TRUE, self |-> self]
              ELSE initialize(self, env)
  IN  [ret |-> IF ~init.value
               THEN _simulate_schedule(preferences)
               ELSE TryExcept(_create_with_arcade_toolkit(init.self, preferences, env),
                              _simulate_schedule(preferences)),
       self |-> init.self]

(* ------------------------------- inputs ------------------------------- *)
SubjectNames == {"Math", "PHYSICS", "History", "English", "Art"}

SubjectLists == UNION {[1..n -> SubjectNames] : n \in 0..MaxSubjects}

StudyDurations == {50, 90, 100}

BreakDurations == {0, 15, 40}

ValidStartTimes ==
  {Clock(9, 0), Clock(11, 0), Clock(13, 0), Clock(15, 0), Clock(17, 0), Clock(20, 30),
   Clock(23, 30), ClockUnpadded(9, 0)}

\* "24:00" and "09:60"
MalformedStartTimes == {Clock(24, 0), Clock(9, 60)}

StartTimes == ValidStartTimes \cup MalformedStartTimes

EmptyPreferences == [k \in {} |-> 0]

\* requests for the shortest study blocks a request can ask for
ShortStudyPreferences ==
  [study_duration : {1}, break_duration : {15},
   subjects : {<<"Math">>, <<"History", "Art">>},
   start_time : {Clock(9, 0), Clock(13, 0)}, end_time : {Clock(17, 0)}]

PreferenceDicts ==
  [study_duration : StudyDurations, break_duration : BreakDurations,
   subjects : SubjectLists, start_time : StartTimes, end_time : {Clock(17, 0)}]
  \cup {EmptyPreferences}
  \cup ShortStudyPreferences

SampleEvent1 ==
  [summary |-> "Data Structures Lecture",
   start |-> [dateTime |-> Clock(10, 0)], end |-> [dateTime |-> Clock(11, 30)]]

SampleEvent2 ==
  [summary |-> "Algorithm Analysis Lab",
   start |-> [dateTime |-> Clock(14, 0)], end |-> [dateTime |-> Clock(17, 0)]]

EventLists == {<<SampleEvent1>>, <<SampleEvent1, SampleEvent2>>}

\* the end_time of a request: the default "17:00", or one before the blocks end
EndTimes == {Clock(17, 0), Clock(10, 0)}

\* the same preferences with another end_time
WithEndTime(preferences, end_time) ==
  [k \in DOMAIN preferences \cup {"end_time"} |->
     IF k = "end_time" THEN end_time ELSE preferences[k]]

\* Optional[List[Dict]] arguments of _generate_optimized_blocks
ExistingEventsArgs == {None} \cup {Some(e) : e \in EventLists}

\* the environments that differ in what the call observes
Environments ==
  {[import |-> "missing", construct |-> "ok", fetch |-> "no_output", events |-> <<>>],
   [import |-> "ok", construct |-> "raises", fetch |-> "no_output", events |-> <<>>],
   [import |-> "ok", construct |-> "ok", fetch |-> "no_output", events |-> <<>>],
   [import |-> "ok", construct |-> "ok", fetch |-> "raises", events |-> <<>>]}
  \cup {[import |-> "ok", construct |-> "ok", fetch |-> "list", events |-> e] : e \in EventLists}

(* ------------- WellnessNudger.schedule_wellness_reminders ------------- *)
\* _add_minutes_to_time: a text that does not parse comes back as it is
_add_minutes_to_time(time_str, minutes) ==
  IF strptime_ok(time_str) THEN strftime(strptime(time_str) + minutes) ELSE time_str

\* a reminder at the end of the study block
BreakReminderAtEnd(block) ==
  [type |-> "break_reminder",
   scheduled_time |-> _add_minutes_to_time(block.start_time, block.duration),
   context |-> [study_duration |-> block.duration,
                subject |-> Get(block, "subject", "your subject")]]

\* the reminder 75% through a study block; the context's study_duration is the
\* number of the text f"{break_time_offset} minutes"
BreakReminder(block) ==
  LET break_time_offset == IntTrunc(block.duration * 75, 100)
  IN  [type |-> "break_reminder",
       scheduled_time |-> _add_minutes_to_time(block.start_time, break_time_offset),
       context |-> [study_duration |-> break_time_offset,
                    subject |-> Get(block, "subject", "your subject")]]

\* the loop over study_blocks
RECURSIVE BreakReminders(_)
BreakReminders(study_blocks) ==
  IF study_blocks = <<>> THEN <<>>
  ELSE LET block == Head(study_blocks)
       IN  (IF Get(block, "type", "") = "study" /\ Get(block, "duration", 0) >= 45
            THEN <<BreakReminder(block)>> ELSE <<>>)
           \o BreakReminders(Tail(study_blocks))

\* while current_time < end_time: current_time += step; append when <= end_time
RECURSIVE EveryStep(_, _, _)
EveryStep(current_time, end_time, step) ==
  IF current_time < end_time
  THEN (IF current_time + step <= end_time THEN <<strftime(current_time + step)>> ELSE <<>>)
       \o EveryStep(current_time + step, end_time, step)
  ELSE <<>>

\* _generate_hydration_schedule (step 120) and _generate_posture_schedule (step 90)
StepSchedule(study_blocks, step) ==
  IF study_blocks = <<>> THEN <<>>
  ELSE EveryStep(strptime(Get(study_blocks[1], "start_time", Clock(9, 0))),
                 strptime(Get(study_blocks[Len(study_blocks)], "end_time", Clock(17, 0))),
                 step)

_generate_hydration_schedule(study_blocks) == StepSchedule(study_blocks, 120)

_generate_posture_schedule(study_blocks) == StepSchedule(study_blocks, 90)

TimedReminders(type, times) ==
  [i \in 1..Len(times) |-> [type |-> type, scheduled_time |-> times[i],
                             context |-> [k \in {} |-> 0]]]

\* the value returned, and the schedule dict as the call leaves it: the code
\* reads the dict and its blocks and assigns to none of them
schedule_wellness_reminders(schedule) ==
  LET study_blocks == Get(schedule, "study_blocks", <<>>)
      scheduled_reminders ==
        BreakReminders(study_blocks)
        \o TimedReminders("hydration", _generate_hydration_schedule(study_blocks))
        \o TimedReminders("posture_check", _generate_posture_schedule(study_blocks))
  IN  [value |-> IF study_blocks = <<>> THEN [scheduled_reminders |-> <<>>]
                 ELSE [scheduled_reminders |-> scheduled_reminders,
                       total_reminders |-> Len(scheduled_reminders),
                       reminder_types |-> {scheduled_reminders[i].type :
                                             i \in 1..Len(scheduled_reminders)}],
       schedule |-> schedule]

(* --------------------- the CalendarOptimizer object ------------------- *)
Self == [initialized |-> initialized, client |-> client]

Init ==
  /\ initialized = FALSE
  /\ client = "None"
  /\ pc = "idle"
  /\ op = "none"
  /\ args = <<>>
  /\ ret = <<>>

\* initialize(), called by the application at start-up
Initialize ==
  /\ pc = "idle" /\ op = "none"
  /\ \E env \in {e \in Environments : e.fetch = "no_output"} :
       LET r == initialize(Self, env)
       IN  /\ initialized' = r.self.initialized
           /\ client' = r.self.client
           /\ op' = "initialize"
           /\ args' = [import |-> env.import, construct |-> env.construct]
           /\ ret' = Returned(r.value)
           /\ pc' = "idle"

CreateOptimizedSchedule ==
  /\ pc = "idle"
  /\ \E preferences \in PreferenceDicts, env \in Environments :
       \* an initialized object does not import or construct again
       /\ initialized => (env.import = "ok" /\ env.construct = "ok")
       /\ \E r \in {create_optimized_schedule(Self, preferences, env)} :
              /\ initialized' = r.self.initialized
              /\ client' = r.self.client
              /\ op' = "create_optimized_schedule"
              /\ args' = [preferences |-> preferences, env |-> env]
              /\ ret' = r.ret
              /\ pc' = "done"

GenerateOptimizedBlocks ==
  /\ pc = "idle" /\ op = "none"
  /\ \E preferences \in PreferenceDicts, existing_events \in ExistingEventsArgs :
       /\ op' = "_generate_optimized_blocks"
       /\ args' = [preferences |-> preferences, existing_events |-> existing_events]
       /\ ret' = _generate_optimized_blocks(preferences, existing_events)
       /\ pc' = "done"
       /\ UNCHANGED <<initialized, client>>

\* a second call of _generate_optimized_blocks, after one made with the default
\* end_time: the same study_duration, break_duration, subjects and start_time,
\* and any end_time and existing events
GenerateOptimizedBlocksAgain ==
  /\ pc = "done" /\ op = "_generate_optimized_blocks"
  /\ Get(args.preferences, "end_time", Clock(17, 0)) = Clock(17, 0)
  /\ \E end_time \in EndTimes, existing_events \in ExistingEventsArgs :
       \E preferences \in {WithEndTime(args.preferences, end_time)} :
         /\ args' = [preferences |-> preferences, existing_events |-> existing_events]
         /\ ret' = _generate_optimized_blocks(preferences, existing_events)
         /\ UNCHANGED <<initialized, client, pc, op>>

\* schedule_wellness_reminders on the schedule create_optimized_schedule
\* returned; ret.schedule is the schedule dict after the call
ScheduleWellnessReminders ==
  /\ pc = "done" /\ op = "create_optimized_schedule" /\ ret.status = "returned"
  /\ \E r \in {schedule_wellness_reminders(ret.value)} :
       /\ op' = "schedule_wellness_reminders"
       /\ args' = [schedule |-> ret.value]
       /\ ret' = [status |-> "returned", value |-> r.value, schedule |-> r.schedule]
       /\ UNCHANGED <<initialized, client, pc>>

Next ==
  \/ Initialize
  \/ CreateOptimizedSchedule
  \/ GenerateOptimizedBlocks
  \/ GenerateOptimizedBlocksAgain
  \/ ScheduleWellnessReminders

Spec == Init /\ [][Next]_vars

(* ------------------- properties of the scheduling calls --------------- *)
\* a call of operation o has ended
Ended(o) == pc = "done" /\ op = o

\* the start_time the call was asked for
RequestedStart == Get(args.preferences, "start_time", Clock(9, 0))

\* C1: in every schedule _generate_optimized_blocks returns, each block starts
\* where the block before it ends, and the first block starts at the requested
\* start_time (given as HH:MM)
C1_BlocksContiguous ==
  (Ended("_generate_optimized_blocks") /\ ret.status = "returned") =>
    LET blocks == ret.value.study_blocks
    IN  /\ \A i \in 1..(Len(blocks) - 1) : blocks[i + 1].start_time = blocks[i].end_time
        /\ (blocks # <<>> /\ RequestedStart.padded) => blocks[1].start_time = RequestedStart

\* a three-block schedule that runs over midnight and keeps the chain
C1_Witness ==
  /\ Ended("_generate_optimized_blocks") /\ ret.status = "returned"
  /\ Len(ret.value.study_blocks) = 3
  /\ RequestedStart = Clock(23, 30)
  /\ ret.value.study_blocks[1].start_time = Clock(23, 30)
  /\ ret.value.study_blocks[2].duration > 0
  /\ ret.value.study_blocks[3].start_time = ret.value.study_blocks[2].end_time
  /\ ret.value.study_blocks[3].start_time.hh < 23

\* the fields of a block the end-to-end example names
BlockOutline(b) ==
  [type |-> b.type, subject |-> b.subject, start_time |-> b.start_time,
   end_time |-> b.end_time, duration |-> b.duration]

C2_Request ==
  /\ Get(args.preferences, "study_duration", 90) = 90
  /\ Get(args.preferences, "break_duration", 15) = 15
  /\ Get(args.preferences, "subjects", DefaultSubjects) = <<"Math", "English">>
  /\ RequestedStart = Clock(9, 0)

\* C2: study 90, break 15, subjects [Math, English], start 09:00 gives exactly
\* Math 09:00-10:30 (90), break 10:30-10:50 (20), English 10:50-12:20 (90)
C2_EndToEnd ==
  (Ended("_generate_optimized_blocks") /\ C2_Request) =>
    /\ ret.status = "returned"
    /\ Len(ret.value.study_blocks) = 3
    /\ BlockOutline(ret.value.study_blocks[1]) =
         [type |-> "study", subject |-> "Math", start_time |-> Clock(9, 0),
          end_time |-> Clock(10, 30), duration |-> 90]
    /\ BlockOutline(ret.value.study_blocks[2]) =
         [type |-> "break", subject |-> "Break", start_time |-> Clock(10, 30),
          end_time |-> Clock(10, 50), duration |-> 20]
    /\ BlockOutline(ret.value.study_blocks[3]) =
         [type |-> "study", subject |-> "English", start_time |-> Clock(10, 50),
          end_time |-> Clock(12, 20), duration |-> 90]

C2_Witness ==
  /\ Ended("_generate_optimized_blocks") /\ C2_Request
  /\ ret.status = "returned"
  /\ ret.value.total_study_time = 180 /\ ret.value.total_break_time = 20

\* the call was given a start_time text that is no clock time
MalformedStart ==
  /\ "start_time" \in DOMAIN args.preferences
  /\ args.preferences.start_time \in MalformedStartTimes

\* C7: with a malformed start_time create_optimized_schedule raises, whatever
\* the provider does; it never returns a schedule
C7_MalformedStartRaises ==
  (Ended("create_optimized_schedule") /\ MalformedStart) => ret.status = "raised"

\* the client is initialised, the provider call fails, and the call still raises
C7_Witness ==
  /\ Ended("create_optimized_schedule") /\ MalformedStart
  /\ initialized /\ client = "Arcade" /\ args.env.fetch = "raises"
  /\ ret = Raised("ValueError")

\* C8: a scheduling call with an empty subject list fails and returns no schedule
C8_EmptySubjectsFail ==
  ((Ended("_generate_optimized_blocks") \/ Ended("create_optimized_schedule"))
    /\ "subjects" \in DOMAIN args.preferences
    /\ args.preferences.subjects = <<>>)
  => ret.status = "raised"

\* C9: with a well-formed start_time create_optimized_schedule returns what
\* _generate_optimized_blocks(preferences) computes, in every provider state
C9_ProviderNeverFatal ==
  (Ended("create_optimized_schedule") /\ ~MalformedStart) =>
    /\ ret.status = "returned"
    /\ ret = _generate_optimized_blocks(args.preferences, None)

\* the library is missing, or the provider call raises, and a schedule comes back
C9_Witness ==
  /\ Ended("create_optimized_schedule") /\ ~MalformedStart
  /\ args.env.fetch = "raises" /\ client = "Arcade"
  /\ ret.status = "returned"
  /\ Len(ret.value.study_blocks) = 3

\* the study_duration and break_duration the call was asked for
RequestedStudyDuration == Get(args.preferences, "study_duration", 90)

RequestedBreakDuration == Get(args.preferences, "break_duration", 15)

\* C13: every study block lasts base study duration x multiplier of the hour it
\* is placed at x penalty, cut to whole minutes, where the penalty is 0.9 exactly
\* for a subject of difficulty >= 8 placed at hour >= 12; Math (9) at 13:00 with
\* base 100 lasts 81 minutes
C13_StudyDurationTruncated ==
  (Ended("_generate_optimized_blocks") /\ ret.status = "returned") =>
    \A i \in 1..Len(ret.value.study_blocks) :
      LET b == ret.value.study_blocks[i]
          hour == b.start_time.hh
          tenths == IF hour \in (9..11) \cup (15..17) THEN 10
                    ELSE IF hour \in 11..20 THEN 9 ELSE 8
          penalty == IF b.difficulty >= 8 /\ hour >= 12 THEN 9 ELSE 10
      IN  b.type = "study" =>
            b.duration = (RequestedStudyDuration * tenths * penalty) \div 100

\* Math placed at 13:00 with base 100: 100 x 0.9 x 0.9 = 81; and a block whose
\* product is not whole (50 x 0.81 = 40.5) is cut to 40
C13_Witness ==
  /\ Ended("_generate_optimized_blocks") /\ ret.status = "returned"
  /\ RequestedStudyDuration = 100
  /\ Len(ret.value.study_blocks) = 3
  /\ ret.value.study_blocks[1].subject = "Math"
  /\ ret.value.study_blocks[1].start_time = Clock(13, 0)
  /\ ret.value.study_blocks[1].duration = 81
  /\ ret.value.study_blocks[3].difficulty < 8
  /\ ret.value.study_blocks[3].start_time.hh = 14
  /\ ret.value.study_blocks[3].duration = 90

\* C15: a break block follows every study block but the last; it lasts
\* min(base break + 5, 20) after a study block of 90 minutes or more and the
\* base break otherwise; nothing follows the last subject
C15_BreakAfterAllButLast ==
  (Ended("_generate_optimized_blocks") /\ ret.status = "returned") =>
    LET blocks == ret.value.study_blocks
        n == Len(Get(args.preferences, "subjects", DefaultSubjects))
        base == RequestedBreakDuration
    IN  /\ Len(blocks) = IF n = 0 THEN 0 ELSE 2 * n - 1
        /\ \A i \in 1..Len(blocks) :
             IF i % 2 = 1 THEN blocks[i].type = "study"
             ELSE /\ blocks[i].type = "break"
                  /\ blocks[i].duration =
                       IF blocks[i - 1].duration >= 90
                       THEN (IF base + 5 <= 20 THEN base + 5 ELSE 20)
                       ELSE base

\* two subjects: a study block of 90 minutes or more, a break capped at 20
\* although the base break is 40, and the last study block with nothing after it
C15_Witness ==
  /\ Ended("_generate_optimized_blocks") /\ ret.status = "returned"
  /\ RequestedBreakDuration = 40
  /\ Len(ret.value.study_blocks) = 3
  /\ ret.value.study_blocks[1].duration >= 90
  /\ ret.value.study_blocks[2].type = "break"
  /\ ret.value.study_blocks[2].duration = 20
  /\ ret.value.study_blocks[3].type = "study"

\* the four preferences the schedule is computed from
SchedulingInputs(preferences) ==
  <<Get(preferences, "study_duration", 90), Get(preferences, "break_duration", 15),
    Get(preferences, "subjects", DefaultSubjects), Get(preferences, "start_time", Clock(9, 0))>>

C23_RatingStrictThresholds ==
  (Ended("_generate_optimized_blocks") /\ ret.status = "returned") =>
    LET score == ret.value.wellness_score
        rating == ret.value.schedule_rating
    IN  /\ rating = "Excellent" <=> score > 85
        /\ rating = "Good" <=> (score > 70 /\ score <= 85)
        /\ rating = "Needs Improvement" <=> score <= 70

\* a schedule whose wellness_score is exactly 8.5 and is rated Good
C23_Witness ==
  /\ Ended("_generate_optimized_blocks") /\ ret.status = "returned"
  /\ ret.value.wellness_score = 85
  /\ ret.value.schedule_rating = "Good"
  /\ Len(ret.value.study_blocks) >= 1

\* C25: no break is shorter than the base break: the break after a study block
\* of 90 minutes or more is at least the break after a shorter one
C25_BreakNeverBelowBase ==
  (Ended("_generate_optimized_blocks") /\ ret.status = "returned"
    /\ RequestedBreakDuration >= 0) =>
    \A i \in 1..Len(ret.value.study_blocks) :
      ret.value.study_blocks[i].type = "break"
        => ret.value.study_blocks[i].duration >= RequestedBreakDuration

\* C26: with a base study duration above 0 every study block lasts more than 0
\* minutes, at every time of day and for every difficulty
C26_StudyBlocksPositive ==
  (Ended("_generate_optimized_blocks") /\ ret.status = "returned"
    /\ RequestedStudyDuration > 0) =>
    \A i \in 1..Len(ret.value.study_blocks) :
      ret.value.study_blocks[i].type = "study"
        => ret.value.study_blocks[i].duration > 0

\* the summed durations of the blocks of one type
RECURSIVE SumDurations(_, _)
SumDurations(blocks, type) ==
  IF blocks = <<>> THEN 0
  ELSE (IF Head(blocks).type = type THEN Head(blocks).duration ELSE 0)
       + SumDurations(Tail(blocks), type)

\* C27: n >= 1 subjects give exactly 2n-1 blocks, study and break alternating,
\* the first and the last a study block; a subject is named by as many study
\* blocks as the request lists it (exactly one for a subject listed once);
\* total_study_time is the sum of the study blocks' durations and
\* total_break_time the sum of the break blocks' durations
C27_AlternatingBlocksAndTotals ==
  (Ended("_generate_optimized_blocks") /\ ret.status = "returned"
    /\ Len(Get(args.preferences, "subjects", DefaultSubjects)) >= 1) =>
    LET subjects == Get(args.preferences, "subjects", DefaultSubjects)
        blocks == ret.value.study_blocks
        n == Len(subjects)
    IN  /\ Len(blocks) = 2 * n - 1
        /\ \A i \in 1..Len(blocks) :
             blocks[i].type = IF i % 2 = 1 THEN "study" ELSE "break"
        /\ blocks[1].type = "study" /\ blocks[Len(blocks)].type = "study"
        /\ \A j \in 1..n :
             Cardinality({i \in 1..Len(blocks) :
                            blocks[i].type = "study" /\ blocks[i].subject = subjects[j]})
               = Cardinality({k \in 1..n : subjects[k] = subjects[j]})
        /\ ret.value.total_study_time = SumDurations(blocks, "study")
        /\ ret.value.total_break_time = SumDurations(blocks, "break")

\* two different subjects, reordered by difficulty: study, break, study, each
\* subject in one study block, and totals that add up the unequal durations
C27_Witness ==
  /\ Ended("_generate_optimized_blocks") /\ ret.status = "returned"
  /\ args.preferences = [study_duration |-> 100, break_duration |-> 15,
                         subjects |-> <<"History", "Math">>,
                         start_time |-> Clock(13, 0), end_time |-> Clock(17, 0)]
  /\ Len(ret.value.study_blocks) = 3
  /\ ret.value.study_blocks[1].subject = "Math"
  /\ ret.value.study_blocks[2].type = "break"
  /\ ret.value.study_blocks[3].subject = "History"
  /\ ret.value.total_study_time = 81 + 90
  /\ ret.value.total_break_time = 15

\* C28: the difficulty recorded on the study blocks never increases along the
\* schedule, and it is the rating the ordering gave the subject: the two tables
\* agree on every name, whatever its case, and rate an unknown name 5
C28_RecordedDifficultyNonIncreasing ==
  (Ended("_generate_optimized_blocks") /\ ret.status = "returned") =>
    LET blocks == ret.value.study_blocks
        study == {i \in 1..Len(blocks) : blocks[i].type = "study"}
    IN  /\ \A i, j \in study : i < j => blocks[i].difficulty >= blocks[j].difficulty
        /\ \A i \in study :
             /\ blocks[i].difficulty = OrderKey(blocks[i].subject)
             /\ blocks[i].subject = "PHYSICS" => blocks[i].difficulty = 8
             /\ blocks[i].subject = "Art" => blocks[i].difficulty = 5

\* an unknown name listed before an upper-case one: PHYSICS (8) is scheduled
\* first, Art (5) second
C28_Witness ==
  /\ Ended("_generate_optimized_blocks") /\ ret.status = "returned"
  /\ Get(args.preferences, "subjects", DefaultSubjects) = <<"Art", "PHYSICS">>
  /\ Len(ret.value.study_blocks) = 3
  /\ ret.value.study_blocks[1].subject = "PHYSICS"
  /\ ret.value.study_blocks[1].difficulty = 8
  /\ ret.value.study_blocks[3].subject = "Art"
  /\ ret.value.study_blocks[3].difficulty = 5

\* the break reminders of a result
RemindersOfType(result, type) ==
  SelectSeq(result.scheduled_reminders, LAMBDA r : r.type = type)

\* C24: schedule_wellness_reminders gives one break_reminder for each study
\* block of 45 minutes or more, in the order of the blocks, at the block's
\* start_time plus floor(0.75 x duration) minutes, a time inside the block;
\* none for a break block or a shorter study block; the schedule is as it was
C24_BreakReminderPerLongStudyBlock ==
  Ended("schedule_wellness_reminders") =>
    LET blocks == args.schedule.study_blocks
        long == SelectSeq(blocks, LAMBDA b : b.type = "study" /\ b.duration >= 45)
        reminders == RemindersOfType(ret.value, "break_reminder")
    IN  /\ ret.schedule = args.schedule
        /\ Len(reminders) = Len(long)
        /\ \A i \in 1..Len(long) :
             LET offset == (3 * long[i].duration) \div 4
                 at == long[i].start_time.hh * 60 + long[i].start_time.mm + offset
             IN  /\ reminders[i].scheduled_time = Clock((at \div 60) % 24, at % 60)
                 /\ reminders[i].context.subject = long[i].subject
                 /\ offset >= 0 /\ offset < long[i].duration

\* a study block of exactly 45 minutes that gets its reminder 33 minutes in, a
\* break block, and a study block of 40 minutes that gets none
C24_Witness ==
  /\ Ended("schedule_wellness_reminders")
  /\ Len(args.schedule.study_blocks) = 3
  /\ args.schedule.study_blocks[1].duration = 45
  /\ args.schedule.study_blocks[2].type = "break"
  /\ args.schedule.study_blocks[3].duration = 40
  /\ Len(RemindersOfType(ret.value, "break_reminder")) = 1
  /\ RemindersOfType(ret.value, "break_reminder")[1].context.study_duration = 33

(* ------------- the pure functions of CalendarOptimizer, one call ------- *)
OrderNames == {"Math", "MATH", "History", "Biology", "English", "Art"}

OrderInputs ==
  {[fn |-> "_order_subjects_by_difficulty", subjects |-> s] :
     s \in UNION {[1..n -> OrderNames] : n \in 0..MaxOrder}}

\* datetimes of the day of the call, every half hour
HalfHours == {60 * h + m : h \in 0..23, m \in {0, 30}}

AdjustInputs ==
  [fn : {"_adjust_duration_for_time_and_subject"}, time : HalfHours,
   subject : {"Math", "PHYSICS", "History", "Art"}, base_duration : StudyDurations]

\* blocks as the score functions read them: type, duration and, on a study
\* block, optimal_time (a study block may lack the key)
ScoreBlocks ==
  [type : {"study"}, duration : {30, 50, 90}, optimal_time : BOOLEAN]
  \cup {[type |-> "study", duration |-> 200], [type |-> "break", duration |-> 15]}

ScoreBlockLists == UNION {[1..n -> ScoreBlocks] : n \in 0..MaxBlocks}

WellnessInputs ==
  [fn : {"_calculate_wellness_score"}, blocks : ScoreBlockLists,
   study_time : {0, 90, 200}, break_time : {0, 15, 100}]

EfficiencyInputs == [fn : {"_calculate_efficiency_score"}, blocks : ScoreBlockLists]

InitHelpers ==
  /\ initialized = FALSE
  /\ client = "None"
  /\ pc = "idle"
  /\ op = "none"
  /\ args \in OrderInputs \cup AdjustInputs \cup WellnessInputs \cup EfficiencyInputs
  /\ ret = <<>>

\* the call args.fn(args...) returns value
Apply(fn, value) ==
  /\ pc = "idle"
  /\ args.fn = fn
  /\ op' = fn
  /\ ret' = Returned(value)
  /\ pc' = "done"
  /\ UNCHANGED <<initialized, client, args>>

OrderSubjectsByDifficulty ==
  /\ args.fn = "_order_subjects_by_difficulty"
  /\ Apply("_order_subjects_by_difficulty", _order_subjects_by_difficulty(args.subjects))

AdjustDurationForTimeAndSubject ==
  /\ args.fn = "_adjust_duration_for_time_and_subject"
  /\ Apply("_adjust_duration_for_time_and_subject",
           _adjust_duration_for_time_and_subject(args.time, args.subject, args.base_duration))

CalculateWellnessScore ==
  /\ args.fn = "_calculate_wellness_score"
  /\ Apply("_calculate_wellness_score",
           _calculate_wellness_score(args.blocks, args.study_time, args.break_time))

CalculateEfficiencyScore ==
  /\ args.fn = "_calculate_efficiency_score"
  /\ Apply("_calculate_efficiency_score", _calculate_efficiency_score(args.blocks))

NextHelpers ==
  \/ OrderSubjectsByDifficulty
  \/ AdjustDurationForTimeAndSubject
  \/ CalculateWellnessScore
  \/ CalculateEfficiencyScore

SpecHelpers == InitHelpers /\ [][NextHelpers]_vars

(* --------------------- properties of the pure functions --------------- *)
\* pi maps the positions of the output to the positions of the input
IsStableDescendingBy(pi, input, output) ==
  /\ \A i \in 1..Len(output) : output[i] = input[pi[i]]
  /\ \A i, j \in 1..Len(output) :
       i < j => \/ OrderKey(output[i]) > OrderKey(output[j])
                \/ (OrderKey(output[i]) = OrderKey(output[j]) /\ pi[i] < pi[j])

\* C3: _order_subjects_by_difficulty returns a permutation of its input, sorted
\* by difficulty descending, equal difficulties in input order; [English, Math,
\* History] gives [Math, History, English]
C3_StableDescendingSort ==
  Ended("_order_subjects_by_difficulty") =>
    LET input == args.subjects
        output == ret.value
        n == Len(input)
    IN  /\ Len(output) = n
        /\ \E pi \in [1..n -> 1..n] :
             /\ \A i, j \in 1..n : i # j => pi[i] # pi[j]
             /\ IsStableDescendingBy(pi, input, output)
        /\ input = <<"English", "Math", "History">>
             => output = <<"Math", "History", "English">>

\* two subjects of difficulty 6 keep their order behind a harder one given last
C3_Witness ==
  /\ Ended("_order_subjects_by_difficulty")
  /\ args.subjects = <<"History", "Biology", "Math">>
  /\ ret.value = <<"Math", "History", "Biology">>

\* C4: at 11:00, 15:00 and 17:00 the time-of-day multiplier is 1.0, the value
\* of the band tested first, so the duration is the base duration, times 0.9
\* only where the afternoon penalty of a hard subject applies
C4_BoundaryHoursFirstBand ==
  (Ended("_adjust_duration_for_time_and_subject") /\ args.time \in {11 * 60, 15 * 60, 17 * 60}) =>
    LET hard == difficulty_map(Lower(args.subject)) >= 8
    IN  ret.value = IF hard /\ args.time >= 12 * 60
                    THEN IntTrunc(args.base_duration * 90, 100)
                    ELSE args.base_duration

C4_Witness ==
  /\ Ended("_adjust_duration_for_time_and_subject")
  /\ args.time = 17 * 60 /\ args.subject = "History" /\ args.base_duration = 100
  /\ ret.value = 100

\* C5: _calculate_wellness_score returns a value in [0, 10], also when the
\* balance score is negative and when there is no study block
C5_WellnessInRange ==
  Ended("_calculate_wellness_score") => ret.value \in 0..100

\* no study block, breaks far above 30% of the study time: the weighted sum is
\* negative and the result is 0
C5_Witness ==
  /\ Ended("_calculate_wellness_score")
  /\ \A i \in 1..Len(args.blocks) : args.blocks[i].type = "break"
  /\ Len(args.blocks) > 0
  /\ 100 * args.break_time > 30 * Max(args.study_time, 1)
  /\ WellnessFraction(args.blocks, args.study_time, args.break_time).num < 0
  /\ ret.value = 0

\* the positions of the study blocks, and of those flagged optimal
StudyPositions(blocks) == {i \in 1..Len(blocks) : blocks[i].type = "study"}

OptimalPositions(blocks) ==
  {i \in StudyPositions(blocks) :
     "optimal_time" \in DOMAIN blocks[i] /\ blocks[i].optimal_time}

\* C6: _calculate_efficiency_score is 0 without a study block, otherwise the
\* average over the study blocks of 10 (flag set) or 6, hence 0 or in [6, 10];
\* break blocks do not count
C6_EfficiencyAverage ==
  Ended("_calculate_efficiency_score") =>
    LET n == Cardinality(StudyPositions(args.blocks))
        k == Cardinality(OptimalPositions(args.blocks))
    IN  IF n = 0 THEN ret.value = 0
        ELSE /\ ret.value = RoundHalfEven(10 * (10 * k + 6 * (n - k)), n)
             /\ ret.value \in 60..100

\* one flagged and one unflagged study block around a break: (10 + 6) / 2
C6_Witness ==
  /\ Ended("_calculate_efficiency_score")
  /\ Len(args.blocks) = 3
  /\ args.blocks[2].type = "break"
  /\ Cardinality(StudyPositions(args.blocks)) = 2
  /\ Cardinality(OptimalPositions(args.blocks)) = 1
  /\ ret.value = 80

\* the three-tier table read on the clock time, in minutes since midnight
MinuteTier(time) ==
  IF (9 * 60 <= time /\ time <= 11 * 60) \/ (15 * 60 <= time /\ time <= 17 * 60) THEN 10
  ELSE IF (11 * 60 <= time /\ time <= 15 * 60) \/ (17 * 60 <= time /\ time <= 20 * 60) THEN 9
  ELSE 8

\* C14: the duration multiplier follows the table at minute granularity: 1.0
\* within 09:00-11:00 and 15:00-17:00, 0.9 for the other times within
\* 11:00-15:00 and 17:00-20:00, 0.8 at any other time, so 11:30 and 17:30 get
\* 0.9 and 20:30 gets 0.8 (a subject without the afternoon penalty shows the
\* multiplier alone)
C14_MinuteGranularTable ==
  (Ended("_adjust_duration_for_time_and_subject") /\ difficulty_map(Lower(args.subject)) < 8) =>
    ret.value = (args.base_duration * MinuteTier(args.time)) \div 10


(* --------------------- GmailAnalyzer: the date filter ----------------- *)
\* An email is a dict that may hold 'date' (a text) or 'timestamp' (epoch
\* seconds), or something that is no dict.  A date text is [form, age]:
\*   form "iso"        2025-09-01T10:00:00        (has a 'T', no zone)
\*        "iso_z"      2025-09-01T10:00:00Z       (has a 'T', trailing Z)
\*        "iso_offset" 2025-09-01T10:00:00+02:00  (has a 'T', an offset)
\*        "date_only"  2025-09-01                 (no 'T')
\*        "rfc2822"    Tue, 02 Sep 2025 10:00:00  (has a 'T', not ISO)
\*   age  the days between the instant the text names and now,
\*   hour the hour of the day the text names (0 for a text without a time).
\* A timestamp is [numeric, age, hour].  A datetime is [none, aware, age, hour].
NotADict == [isinstance_dict |-> FALSE]

IsDict(email) == "isinstance_dict" \notin DOMAIN email

NoDatetime == [none |-> TRUE, aware |-> FALSE, age |-> 0]

\* 'T' in date_str
ContainsT(date_str) == date_str.form \in {"iso", "iso_z", "iso_offset", "rfc2822"}

\* datetime.fromisoformat(date_str.replace('Z', '+00:00'))
fromisoformat(date_str) ==
  CASE date_str.form = "iso" ->
         Returned([none |-> FALSE, aware |-> FALSE, age |-> date_str.age,
                   hour |-> date_str.hour])
    [] date_str.form \in {"iso_z", "iso_offset"} ->
         Returned([none |-> FALSE, aware |-> TRUE, age |-> date_str.age,
                   hour |-> date_str.hour])
    [] date_str.form = "date_only" ->
         Returned([none |-> FALSE, aware |-> FALSE, age |-> date_str.age, hour |-> 0])
    [] OTHER -> Raised("ValueError")

\* datetime.fromtimestamp(float(timestamp)): a local datetime without zone
fromtimestamp(timestamp) ==
  IF timestamp.numeric
  THEN Returned([none |-> FALSE, aware |-> FALSE, age |-> timestamp.age,
                 hour |-> timestamp.hour])
  ELSE Raised("ValueError")

\* email_date >= cutoff_date, with cutoff_date = datetime.now() - timedelta(days=days_back):
\* comparing a datetime that has a zone with one that has none raises TypeError
NotBeforeCutoff(email_date, days_back) ==
  IF email_date.aware THEN Raised("TypeError")
  ELSE Returned(email_date.age <= days_back)

\* the first try block of the loop: the email_date it arrives at
EmailDate(email) ==
  IF IsDict(email)
  THEN IF "date" \in DOMAIN email
       THEN IF ContainsT(email.date) THEN fromisoformat(email.date)
            ELSE Returned(NoDatetime)
       ELSE IF "timestamp" \in DOMAIN email THEN fromtimestamp(email.timestamp)
            ELSE Returned(NoDatetime)
  ELSE Returned(NoDatetime)

\* whether the loop appends the email to recent_emails
IsRecent(email, days_back) ==
  LET email_date == EmailDate(email)
  IN  IF email_date.status = "raised" THEN TRUE
      ELSE IF email_date.value.none THEN TRUE
      ELSE LET test == NotBeforeCutoff(email_date.value, days_back)
           IN  IF test.status = "raised" THEN TRUE ELSE test.value

RECURSIVE RecentEmails(_, _)
RecentEmails(emails, days_back) ==
  IF emails = <<>> THEN <<>>
  ELSE (IF IsRecent(Head(emails), days_back) THEN <<Head(emails)>> ELSE <<>>)
       \o RecentEmails(Tail(emails), days_back)

stress_keywords ==
  <<"urgent", "deadline", "asap", "emergency", "critical", "overdue", "late", "failed",
    "missing", "important", "immediately", "quickly", "rush", "priority">>

work_keywords ==
  <<"assignment", "homework", "project", "exam", "test", "quiz", "submission", "grade",
    "course", "class", "study", "lecture", "professor", "teacher">>

\* the keywords k of the two lists with  k in str(phrase).lower(), for the
\* phrases of the model ("Latest" holds both "late" and "test")
KeywordsIn(phrase) ==
  CASE phrase = "Project update" -> {"project"}
    [] phrase = "URGENT: deadline tomorrow" -> {"urgent", "deadline"}
    [] phrase = "Latest grades" -> {"late", "test", "grade"}
    [] phrase = "professor@uni.edu" -> {"professor"}
    [] OTHER -> {}

\* a or b, on strings
Or(a, b) == IF a # "" THEN a ELSE b

\* the keywords found in email_text = f"{subject} {body} {sender}"
EmailText(email) ==
  LET subject == Get(email, "subject", "")
      body == Or(Get(email, "body", ""), Or(Get(email, "snippet", ""), Get(email, "text", "")))
      sender == Or(Get(email, "sender", ""), Get(email, "from", ""))
  IN  KeywordsIn(subject) \cup KeywordsIn(body) \cup KeywordsIn(sender)

\* a scan that goes on after a match
EveryMatch(keywords, email_text) == SelectSeq(keywords, LAMBDA k : k \in email_text)

\* for keyword in keywords: if keyword in email_text: ...; break
\* the keywords the loop body runs for: the first match, or none
FirstMatch(keywords, email_text) ==
  LET matches == SelectSeq(keywords, LAMBDA k : k \in email_text)
  IN  IF matches = <<>> THEN <<>> ELSE <<Head(matches)>>

\* if keyword not in stress_keywords_found: stress_keywords_found.append(keyword)
RECURSIVE AppendNew(_, _)
AppendNew(found, keywords) ==
  IF keywords = <<>> THEN found
  ELSE AppendNew(IF \E i \in 1..Len(found) : found[i] = Head(keywords)
                 THEN found ELSE Append(found, Head(keywords)),
                 Tail(keywords))

\* the second try block of the loop: the email_time the histogram counts, read
\* from 'date' whether or not the text holds a 'T'
EmailTime(email) ==
  IF "date" \in DOMAIN email THEN fromisoformat(email.date)
  ELSE IF "timestamp" \in DOMAIN email THEN fromtimestamp(email.timestamp)
  ELSE Returned(NoDatetime)

\* hourly_distribution[hour] = hourly_distribution.get(hour, 0) + 1, on a dict
\* kept as the sequence of its items in insertion order
CountHour(hourly_distribution, hour) ==
  IF \E i \in 1..Len(hourly_distribution) : hourly_distribution[i].hour = hour
  THEN [i \in 1..Len(hourly_distribution) |->
          IF hourly_distribution[i].hour = hour
          THEN [hour |-> hour, count |-> hourly_distribution[i].count + 1]
          ELSE hourly_distribution[i]]
  ELSE Append(hourly_distribution, [hour |-> hour, count |-> 1])

\* the histogram after one email: a failed parse leaves it alone
AddToHistogram(hourly_distribution, email) ==
  LET email_time == EmailTime(email)
  IN  IF email_time.status = "raised" THEN hourly_distribution
      ELSE IF email_time.value.none THEN hourly_distribution
      ELSE CountHour(hourly_distribution, email_time.value.hour)

\* the loop over recent_emails; acc holds urgent_count, work_count,
\* stress_keywords_found and hourly_distribution
RECURSIVE ScanEmails(_, _)
ScanEmails(recent_emails, acc) ==
  IF recent_emails = <<>> THEN acc
  ELSE
    LET email == Head(recent_emails)
        email_text == EmailText(email)
        stress == FirstMatch(stress_keywords, email_text)
        work == FirstMatch(work_keywords, email_text)
    IN  ScanEmails(Tail(recent_emails),
          IF ~IsDict(email) THEN acc
          ELSE [urgent_count |-> acc.urgent_count + Len(stress),
                work_count |-> acc.work_count + Len(work),
                stress_keywords_found |-> AppendNew(acc.stress_keywords_found, stress),
                hourly_distribution |-> AddToHistogram(acc.hourly_distribution, email)])

\* the total the ratios are taken over, without the date filter
TotalEmailsUnfiltered(emails, recent_emails) == Len(emails)

\* total_emails = len(recent_emails)
TotalEmails(emails, recent_emails) == Len(recent_emails)

\* workload_score before rounding, as the fraction num/den. The code computes
\* it in floating point; below 35 emails the float and the exact quotient give
\* the same category and the same rounded value.
WorkloadScore(total_emails, urgent_count, work_count) ==
  IF total_emails > 0
  THEN [num |-> Min(10 * total_emails, 50 * urgent_count + 30 * work_count),
        den |-> total_emails]
  ELSE [num |-> 0, den |-> 1]

BurnoutRisk(workload_score) ==
  IF workload_score.num >= 7 * workload_score.den THEN "high"
  ELSE IF workload_score.num >= 4 * workload_score.den THEN "moderate"
  ELSE "low"

\* max(hourly_distribution.values())
RECURSIVE MaxCount(_)
MaxCount(hourly_distribution) ==
  IF hourly_distribution = <<>> THEN 0
  ELSE Max(Head(hourly_distribution).count, MaxCount(Tail(hourly_distribution)))

\* f"{hour:02d}:00-{(hour+1)%24:02d}:00", as the pair of the two clock texts
HourRange(hour) == [from |-> Clock(hour, 0), to |-> Clock((hour + 1) % 24, 0)]

\* a peak test that asks for the maximum itself
IsPeakAtMaximum(count, max_count) == count >= max_count

\* count >= max_count * 0.7
IsPeak(count, max_count) == 10 * count >= 7 * max_count

\* peak_hours: the ranges of the peak buckets, in the order of the dict
PeakHours(hourly_distribution) ==
  LET max_count == MaxCount(hourly_distribution)
      peaks == SelectSeq(hourly_distribution, LAMBDA item : IsPeak(item.count, max_count))
  IN  [i \in 1..Len(peaks) |-> HourRange(peaks[i].hour)]

\* any(hour for hour in hourly_distribution.keys() if hour >= 22 or hour <= 6):
\* any() tests the truth of the hours it is given, and hour 0 is false
AnyLateHour(hourly_distribution) ==
  \E i \in 1..Len(hourly_distribution) :
    /\ hourly_distribution[i].hour >= 22 \/ hourly_distribution[i].hour <= 6
    /\ hourly_distribution[i].hour # 0

\* if not recommendations: recommendations.append(...)
WithHealthyNote(recommendations) ==
  IF recommendations = <<>>
  THEN <<"Email patterns look healthy - keep up the good work!">>
  ELSE recommendations

Recommendations(total_emails, urgent_count, work_count, peak_hours, hourly_distribution) ==
  WithHealthyNote(
    IF total_emails > 0
    THEN (IF 4 * urgent_count > total_emails
          THEN <<"High urgency emails detected - consider prioritization techniques">>
          ELSE <<>>)
         \o (IF Len(peak_hours) > 3
             THEN <<"Email scattered throughout day - try batching email checks">>
             ELSE <<>>)
         \o (IF AnyLateHour(hourly_distribution)
             THEN <<"Late night/early morning emails - set email boundaries">>
             ELSE <<>>)
         \o (IF 5 * work_count > 3 * total_emails
             THEN <<"High volume of academic emails - consider organizing with filters">>
             ELSE <<>>)
    ELSE <<>>)

\* the result dict; workload_score is round(workload_score, 1), in tenths
_analyze_email_content(emails, days_back) ==
  LET recent_emails == RecentEmails(emails, days_back)
      total_emails == TotalEmails(emails, recent_emails)
      acc == ScanEmails(recent_emails, [urgent_count |-> 0, work_count |-> 0,
                                        stress_keywords_found |-> <<>>,
                                        hourly_distribution |-> <<>>])
      workload_score == WorkloadScore(total_emails, acc.urgent_count, acc.work_count)
      peak_hours == PeakHours(acc.hourly_distribution)
  IN  [total_emails |-> total_emails,
       urgent_emails |-> acc.urgent_count,
       work_emails |-> acc.work_count,
       stress_keywords_found |-> acc.stress_keywords_found,
       peak_hours |-> peak_hours,
       workload_score |-> RoundHalfEven(10 * workload_score.num, workload_score.den),
       burnout_risk |-> BurnoutRisk(workload_score),
       recommendations |-> Recommendations(total_emails, acc.urgent_count, acc.work_count,
                                           peak_hours, acc.hourly_distribution),
       days_analyzed |-> days_back,
       hourly_distribution |-> acc.hourly_distribution]

DateTexts ==
  [form : {"iso", "iso_z"}, age : {0, 10}, hour : {10}]
  \cup [form : {"iso_offset", "rfc2822"}, age : {10}, hour : {10}]
  \cup [form : {"date_only"}, age : {10}, hour : {0}]

Timestamps ==
  [numeric : {TRUE}, age : {0, 10}, hour : {10}]
  \cup {[numeric |-> FALSE, age |-> 0, hour |-> 0]}

Emails ==
  {[subject |-> "Project update", date |-> d] : d \in DateTexts}
  \cup {[subject |-> "Project update", timestamp |-> t] : t \in Timestamps}
  \cup {[subject |-> "Project update"], NotADict}

\* emails told apart by their text: subject alone, a snippet behind an empty
\* body, a sender, and one older than either window
TextEmails ==
  {[subject |-> p] : p \in {"URGENT: deadline tomorrow", "Latest grades", "Lunch on Friday"}}
  \cup {[subject |-> "Lunch on Friday", body |-> "", snippet |-> "URGENT: deadline tomorrow"],
        [subject |-> "Lunch on Friday", from |-> "professor@uni.edu"],
        [subject |-> "URGENT: deadline tomorrow",
         date |-> [form |-> "iso", age |-> 40, hour |-> 10]]}

\* an email of today received at the hour
At(hour, subject) ==
  [subject |-> subject, date |-> [form |-> "iso", age |-> 0, hour |-> hour]]

\* emails told apart by the hour they arrive at, late, early and in the day
HourEmails ==
  {At(hour, "Lunch on Friday") : hour \in {0, 3, 6, 7, 22}}
  \cup {[subject |-> "Lunch on Friday", timestamp |-> [numeric |-> TRUE, age |-> 0, hour |-> 23]]}

EmailLists == UNION {[1..n -> Emails \cup TextEmails \cup HourEmails] : n \in 0..MaxEmails}

\* n copies of an email
Repeat(email, n) == [i \in 1..n |-> email]

\* larger inboxes: up to two emails with a stress and a work keyword, up to two
\* with a work keyword only, up to two with a stress keyword only, up to
\* MaxPlain with neither, and possibly one ten days old
Inboxes ==
  {Repeat([subject |-> "Latest grades"], both)
   \o Repeat([subject |-> "Project update"], work)
   \o Repeat([subject |-> "Lunch on Friday", snippet |-> "URGENT: deadline tomorrow"], stress)
   \o Repeat([subject |-> "Lunch on Friday"], plain)
   \o Repeat([subject |-> "URGENT: deadline tomorrow",
              date |-> [form |-> "iso", age |-> 10, hour |-> 10]], old) :
     both \in 0..2, work \in 0..2, stress \in 0..2, plain \in 0..MaxPlain, old \in 0..1}

\* inboxes told apart by their histogram: up to MaxPerHour emails at 10:00, up
\* to MaxPerHour at 23:00 (with a stress and a work keyword), and possibly
\* one each at 14:00 and at midnight
HourInboxes ==
  {Repeat(At(10, "Lunch on Friday"), morning)
   \o Repeat(At(23, "Latest grades"), night)
   \o Repeat(At(14, "Lunch on Friday"), afternoon)
   \o Repeat(At(0, "Project update"), midnight) :
     morning \in 0..MaxPerHour, night \in 0..MaxPerHour,
     afternoon \in 0..1, midnight \in 0..1}

InitEmail ==
  /\ initialized = FALSE
  /\ client = "None"
  /\ pc = "idle"
  /\ op = "none"
  /\ args \in [fn : {"_analyze_email_content"},
              emails : EmailLists \cup Inboxes \cup HourInboxes,
              days_back : {7, 30}]
  /\ ret = <<>>

AnalyzeEmailContent ==
  /\ pc = "idle"
  /\ op' = "_analyze_email_content"
  /\ ret' = Returned(_analyze_email_content(args.emails, args.days_back))
  /\ pc' = "done"
  /\ UNCHANGED <<initialized, client, args>>

NextEmail == AnalyzeEmailContent

SpecEmail == InitEmail /\ [][NextEmail]_vars

(* ----------------------- properties of the date filter ---------------- *)
\* the email carries a timestamp that names an instant: an ISO datetime, with
\* or without zone, or epoch seconds
NamesAnInstant(email) ==
  /\ IsDict(email)
  /\ \/ "date" \in DOMAIN email /\ email.date.form \in {"iso", "iso_z", "iso_offset"}
     \/ "date" \notin DOMAIN email /\ "timestamp" \in DOMAIN email /\ email.timestamp.numeric

InstantAge(email) == IF "date" \in DOMAIN email THEN email.date.age ELSE email.timestamp.age

\* C10: an email is kept exactly when its timestamp is missing or unparsable, or
\* names an instant not earlier than now - days_back; every email whose
\* timestamp names an earlier instant, in whatever format, is not counted in
\* total_emails
C10_KeptIffRecentOrUnparsable ==
  Ended("_analyze_email_content") =>
    ret.value.total_emails =
      Cardinality({i \in 1..Len(args.emails) :
                     \/ ~NamesAnInstant(args.emails[i])
                     \/ InstantAge(args.emails[i]) <= args.days_back})

(* ------------------- properties of the keyword scan ------------------- *)
\* the positions of the emails the date filter keeps
KeptPositions == {i \in 1..Len(args.emails) : IsRecent(args.emails[i], args.days_back)}

\* the kept emails whose text holds at least one keyword of the list
PositionsWith(keywords) ==
  {i \in KeptPositions :
     /\ IsDict(args.emails[i])
     /\ \E k \in 1..Len(keywords) : keywords[k] \in EmailText(args.emails[i])}

\* C11: every kept email raises urgent_emails by at most one, however many
\* stress keywords it holds, and adds at most one keyword to
\* stress_keywords_found, which has no duplicates; one email with both "urgent"
\* and "deadline" gives urgent_emails = 1 and one recorded keyword
C11_FirstStressMatchOnly ==
  Ended("_analyze_email_content") =>
    LET found == ret.value.stress_keywords_found
    IN  /\ ret.value.urgent_emails = Cardinality(PositionsWith(stress_keywords))
        /\ Len(found) <= ret.value.urgent_emails
        /\ \A i, j \in 1..Len(found) : i # j => found[i] # found[j]
        /\ args.emails = <<[subject |-> "URGENT: deadline tomorrow"]>>
             => ret.value.urgent_emails = 1 /\ found = <<"urgent">>

\* two emails that each hold "urgent" and "deadline": counted twice, recorded once
C11_Witness ==
  /\ Ended("_analyze_email_content")
  /\ Len(args.emails) = 2
  /\ \A i \in 1..2 : {"urgent", "deadline"} \subseteq EmailText(args.emails[i])
  /\ ret.value.total_emails = 2
  /\ ret.value.urgent_emails = 2
  /\ ret.value.stress_keywords_found = <<"urgent">>

\* C19: the burnout_risk of a result agrees with the workload_score of the same
\* result (in tenths): high exactly from 7.0, moderate exactly from 4.0 to below
\* 7.0, low otherwise
C19_BurnoutAgreesWithScore ==
  Ended("_analyze_email_content") =>
    ret.value.burnout_risk =
      IF ret.value.workload_score >= 70 THEN "high"
      ELSE IF ret.value.workload_score >= 40 THEN "moderate"
      ELSE "low"

\* C20: total_emails is the number of kept emails, urgent_emails and
\* work_emails never exceed it, and workload_score is
\* min(10, (urgent/total x 5 + work/total x 3) x 10), given to one decimal; it
\* is 0 when no email is kept and always lies in [0, 10]
C20_WorkloadScoreFormula ==
  Ended("_analyze_email_content") =>
    LET total == Cardinality(KeptPositions)
        urgent == ret.value.urgent_emails
        work == ret.value.work_emails
        points == 50 * urgent + 30 * work
        score == ret.value.workload_score
    IN  /\ ret.value.total_emails = total
        /\ urgent \in 0..total /\ work \in 0..total
        /\ score \in 0..100
        /\ total = 0 => score = 0
        /\ (total > 0 /\ points >= 10 * total) => score = 100
        /\ (total > 0 /\ points < 10 * total) =>
             /\ 2 * (10 * points - score * total) <= total
             /\ 2 * (score * total - 10 * points) <= total

\* an email is dropped by the filter, the others give a score below the cap
\* that is not a whole number of tenths
C20_Witness ==
  /\ Ended("_analyze_email_content")
  /\ ret.value.total_emails < Len(args.emails)
  /\ ret.value.total_emails > 0
  /\ ret.value.urgent_emails > 0 /\ ret.value.work_emails > 0
  /\ ret.value.workload_score \in 1..99
  /\ (10 * (50 * ret.value.urgent_emails + 30 * ret.value.work_emails))
       % ret.value.total_emails # 0

(* ---------------- properties of the hourly histogram ------------------ *)
\* the hour of the day the timestamp of an email names, -1 when it names none
NamedHour(email) ==
  IF ~IsDict(email) THEN -1
  ELSE IF "date" \in DOMAIN email
       THEN (IF email.date.form \in {"iso", "iso_z", "iso_offset"} THEN email.date.hour
             ELSE IF email.date.form = "date_only" THEN 0
             ELSE -1)
       ELSE IF "timestamp" \in DOMAIN email /\ email.timestamp.numeric
            THEN email.timestamp.hour
            ELSE -1

\* the number of kept emails whose timestamp names the hour
KeptAt(hour) == Cardinality({i \in KeptPositions : NamedHour(args.emails[i]) = hour})

\* C22: peak_hours lists exactly the hours whose count of kept emails is at
\* least 70% of the largest count, each once, as the range from HH:00 to the
\* next hour, 23 as 23:00-00:00; the busiest hour is always listed and the list
\* is empty only when no kept email has a timestamp that parses
C22_PeakHoursSeventyPercent ==
  Ended("_analyze_email_content") =>
    LET hours == {NamedHour(args.emails[i]) : i \in KeptPositions} \ {-1}
        count == [h \in hours |-> KeptAt(h)]
        peaks == {h \in hours : \A g \in hours : 10 * count[h] >= 7 * count[g]}
        listed == {ret.value.peak_hours[i] : i \in 1..Len(ret.value.peak_hours)}
    IN  /\ listed = {[from |-> Clock(h, 0), to |-> Clock(IF h = 23 THEN 0 ELSE h + 1, 0)] :
                       h \in peaks}
        /\ Len(ret.value.peak_hours) = Cardinality(peaks)
        /\ \A h \in hours : (\A g \in hours : count[h] >= count[g]) => h \in peaks
        /\ ret.value.peak_hours = <<>> <=> hours = {}

\* ten emails at 10:00, seven at 23:00 and one at midnight: 7 is 70% of 10, so
\* 10:00-11:00 and 23:00-00:00 are peak hours and 00:00-01:00 is not
C22_Witness ==
  /\ Ended("_analyze_email_content")
  /\ KeptAt(10) = 10 /\ KeptAt(23) = 7 /\ KeptAt(0) = 1
  /\ ret.value.peak_hours = <<[from |-> Clock(10, 0), to |-> Clock(11, 0)],
                              [from |-> Clock(23, 0), to |-> Clock(0, 0)]>>

\* C21: the recommendations are the fixed strings of the four checks that hold,
\* urgent share above 25%, more than 3 peak hours, a histogram bucket at an
\* hour of 22, 23, 0, ..., 6 (hour 0 alone included), work share above 60%; the
\* healthy note is there exactly when none of the four holds, so the list is
\* never empty
C21_FourIndependentChecks ==
  Ended("_analyze_email_content") =>
    LET r == ret.value
        recs == {r.recommendations[i] : i \in 1..Len(r.recommendations)}
        urgent == 4 * r.urgent_emails > r.total_emails
        scattered == Len(r.peak_hours) > 3
        late == \E h \in (22..23) \cup (0..6) : KeptAt(h) > 0
        work == 5 * r.work_emails > 3 * r.total_emails
    IN  /\ r.recommendations # <<>>
        /\ "High urgency emails detected - consider prioritization techniques" \in recs
             <=> urgent
        /\ "Email scattered throughout day - try batching email checks" \in recs
             <=> scattered
        /\ "Late night/early morning emails - set email boundaries" \in recs
             <=> late
        /\ "High volume of academic emails - consider organizing with filters" \in recs
             <=> work
        /\ "Email patterns look healthy - keep up the good work!" \in recs
             <=> ~(urgent \/ scattered \/ late \/ work)

(* ------------- CalendarOptimizer._calculate_free_time_blocks ---------- *)
\* A timestamp text of an event is
\*   [form |-> "empty"]                       ''
\*   [form |-> "iso", t |-> m]                'YYYY-MM-DDTHH:MM:SS'
\*   [form |-> "iso_z", t |-> m]              the same with a trailing Z
\*   [form |-> "iso_offset", t |-> m]         the same with a UTC offset +02:00
\*   [form |-> "garbage"]                     'tomorrow'
\*   Clock(h, m)                              'HH:MM', as strftime writes it
\* where m counts the minutes since 2025-09-13T00:00 (negative before that day,
\* 1440 and more after it). All times of the model are multiples of ten
\* minutes, where round(hours, 1) has no tie.
EmptyText == [form |-> "empty"]

IsClock(text) == "hh" \in DOMAIN text

\* datetime.fromisoformat(text.replace('Z', ''))
ParseEventTime(text) ==
  IF IsClock(text) THEN Raised("ValueError")
  ELSE CASE text.form \in {"iso", "iso_z"} -> Returned([aware |-> FALSE, t |-> text.t])
         [] text.form = "iso_offset" -> Returned([aware |-> TRUE, t |-> text.t])
         [] OTHER -> Raised("ValueError")

\* the order of str on the texts of the model, as a triple compared left to
\* right: '' < 'HH:MM' below 20 h < '20YY-...' < 'HH:MM' from 20 h < 'tomorrow';
\* among ISO texts by time, then '' < '+02:00' < 'Z'
StartKey(event) ==
  LET text == Get(event, "start", EmptyText)
  IN  IF IsClock(text)
      THEN <<IF text.hh < 20 THEN 1 ELSE 3, 60 * text.hh + text.mm, 0>>
      ELSE CASE text.form = "empty" -> <<0, 0, 0>>
             [] text.form = "iso" -> <<2, text.t, 0>>
             [] text.form = "iso_offset" -> <<2, text.t, 1>>
             [] text.form = "iso_z" -> <<2, text.t, 2>>
             [] OTHER -> <<4, 0, 0>>

KeyLess(a, b) ==
  \/ a[1] < b[1]
  \/ a[1] = b[1] /\ a[2] < b[2]
  \/ a[1] = b[1] /\ a[2] = b[2] /\ a[3] < b[3]

\* sorted(events, key=lambda x: x.get('start', '')): stable, ascending
RECURSIVE InsertByStart(_, _)
InsertByStart(sorted, event) ==
  IF sorted = <<>> THEN <<event>>
  ELSE IF KeyLess(StartKey(event), StartKey(sorted[Len(sorted)]))
       THEN Append(InsertByStart(SubSeq(sorted, 1, Len(sorted) - 1), event),
                   sorted[Len(sorted)])
       ELSE Append(sorted, event)

\* the events in the order they were handed in
AsHandedIn(done, rest) == done \o rest

RECURSIVE SortedByStart(_, _)
SortedByStart(done, rest) ==
  IF rest = <<>> THEN done
  ELSE SortedByStart(InsertByStart(done, Head(rest)), Tail(rest))

\* (event_start - current_time).seconds, in minutes: the days of the
\* difference are left out
SecondsOf(minutes) == minutes % 1440

FreeBlock(current_time, event_start) ==
  [start |-> strftime(current_time),
   end |-> strftime(event_start),
   duration_hours |-> RoundHalfEven(10 * SecondsOf(event_start - current_time), 60)]

\* one pass of the loop body: the free_blocks and current_time after the event
FreeStep(event, current_time, free_blocks) ==
  LET start_str == Get(event, "start", EmptyText)
      end_str == Get(event, "end", EmptyText)
      unchanged == [current_time |-> current_time, free_blocks |-> free_blocks]
      event_start == ParseEventTime(start_str)
      event_end == ParseEventTime(end_str)
  IN  IF start_str = EmptyText THEN unchanged
      ELSE IF event_start.status = "raised" THEN unchanged
      ELSE IF event_start.value.aware THEN unchanged
      ELSE
        LET blocks == IF /\ current_time < event_start.value.t
                         /\ SecondsOf(event_start.value.t - current_time) >= 30
                      THEN Append(free_blocks, FreeBlock(current_time, event_start.value.t))
                      ELSE free_blocks
        IN  IF end_str = EmptyText \/ event_end.status = "raised" \/ event_end.value.aware
            THEN [current_time |-> current_time, free_blocks |-> blocks]
            ELSE [current_time |-> Max(current_time, event_end.value.t),
                  free_blocks |-> blocks]

RECURSIVE FreeLoop(_, _, _)
FreeLoop(sorted_events, current_time, free_blocks) ==
  IF sorted_events = <<>> THEN free_blocks
  ELSE LET after == FreeStep(Head(sorted_events), current_time, free_blocks)
       IN  FreeLoop(Tail(sorted_events), after.current_time, after.free_blocks)

\* duration_hours in tenths of an hour
_calculate_free_time_blocks(events) ==
  IF events = <<>>
  THEN <<[start |-> Clock(9, 0), end |-> Clock(17, 0), duration_hours |-> 80]>>
  ELSE FreeLoop(SortedByStart(<<>>, events), 9 * 60, <<>>)

\* 'YYYY-MM-DDTHH:MM:00' on 2025-09-13 plus day days
Iso(day, h, m) == [form |-> "iso", t |-> 1440 * day + 60 * h + m]

Busy(start, end) == [start |-> start, end |-> end]

\* busy intervals: the two sample events, a short one, one ten minutes after the
\* day start, one on the next day, and intervals with a text that does not
\* parse, carries a zone, or is missing
BusyEvents ==
  {Busy(Iso(0, 10, 0), Iso(0, 11, 30)),
   Busy(Iso(0, 14, 0), Iso(0, 17, 0)),
   Busy(Iso(0, 12, 0), Iso(0, 12, 20)),
   Busy(Iso(0, 9, 10), Iso(0, 9, 40)),
   Busy(Iso(1, 9, 10), Iso(1, 10, 0)),
   Busy(Iso(0, 12, 0), [form |-> "garbage"]),
   Busy([form |-> "garbage"], Iso(0, 13, 0)),
   Busy([form |-> "iso_z", t |-> 13 * 60], [form |-> "iso_z", t |-> 13 * 60 + 30]),
   Busy([form |-> "iso_offset", t |-> 11 * 60], Iso(0, 12, 0)),
   Busy(Iso(0, 18, 0), EmptyText),
   [end |-> Iso(0, 16, 0)]}

BusyLists == UNION {[1..n -> BusyEvents] : n \in 0..MaxEvents}

(* ------------------- CalendarOptimizer.get_calendar_events ------------ *)
\* the two events get_calendar_events falls back on
FallbackEvents ==
  <<[summary |-> "Data Structures Lecture",
     start |-> [dateTime |-> Iso(0, 10, 0)], end |-> [dateTime |-> Iso(0, 11, 30)]],
    [summary |-> "Algorithm Analysis Lab",
     start |-> [dateTime |-> Iso(0, 14, 0)], end |-> [dateTime |-> Iso(0, 17, 0)]]>>

\* {'title': ..., 'start': ..., 'end': ..., 'type': 'existing'}
ProcessedEvent(event) ==
  [title |-> Get(event, "summary", "Untitled"),
   start |-> Get(Get(event, "start", [k \in {} |-> 0]), "dateTime", EmptyText),
   end |-> Get(Get(event, "end", [k \in {} |-> 0]), "dateTime", EmptyText),
   type |-> "existing"]

\* the sum behind total_free_hours, in minutes: each block's 'end' and 'start'
\* go through datetime.fromisoformat, and the first text it rejects ends the sum
RECURSIVE TotalFreeMinutes(_)
TotalFreeMinutes(free_blocks) ==
  IF free_blocks = <<>> THEN Returned(0)
  ELSE LET block_end == ParseEventTime(Head(free_blocks).end)
           block_start == ParseEventTime(Head(free_blocks).start)
           rest == TotalFreeMinutes(Tail(free_blocks))
       IN  IF block_end.status = "raised" THEN block_end
           ELSE IF block_start.status = "raised" THEN block_start
           ELSE IF block_end.value.aware # block_start.value.aware THEN Raised("TypeError")
           ELSE IF rest.status = "raised" THEN rest
           ELSE Returned(SecondsOf(block_end.value.t - block_start.value.t) + rest.value)

\* the dict get_calendar_events returns; total_free_hours in minutes
get_calendar_events(self, env) ==
  LET events == IF self.initialized /\ self.client # "None"
                THEN _get_existing_events(self, env)
                ELSE FallbackEvents
      processed_events == [i \in 1..Len(events) |-> ProcessedEvent(events[i])]
      free_blocks == _calculate_free_time_blocks(processed_events)
      total == TotalFreeMinutes(free_blocks)
  IN  IF total.status = "raised"
      THEN [events |-> <<>>, free_time_blocks |-> <<>>, error |-> total.exc]
      ELSE [events |-> processed_events,
            free_time_blocks |-> free_blocks,
            total_events |-> Len(processed_events),
            total_free_hours |-> total.value]

\* a provider event around a busy interval
ProviderEvent(busy) ==
  [k \in {"summary"} \cup DOMAIN busy |->
     IF k = "summary" THEN "Seminar" ELSE [dateTime |-> busy[k]]]

\* what the provider answers to GoogleCalendar.ListEvents when the calendar
\* holds the busy intervals: the events, or an error
ProviderAnswers(busy) ==
  {[import |-> "ok", construct |-> "ok", fetch |-> "raises", events |-> <<>>],
   [import |-> "ok", construct |-> "ok", fetch |-> "list",
    events |-> [i \in 1..Len(busy) |-> ProviderEvent(busy[i])]]}

\* the object before initialize(), or after an initialize() that went through
InitFree ==
  /\ initialized \in BOOLEAN
  /\ client = IF initialized THEN "Arcade" ELSE "None"
  /\ pc = "idle"
  /\ op = "none"
  /\ args \in [fn : {"_calculate_free_time_blocks"}, events : BusyLists]
  /\ ret = <<>>

CalculateFreeTimeBlocks ==
  /\ pc = "idle"
  /\ op' = "_calculate_free_time_blocks"
  /\ ret' = Returned(_calculate_free_time_blocks(args.events))
  /\ pc' = "done"
  /\ UNCHANGED <<initialized, client, args>>

\* the free blocks of a call handed to a second call as its busy intervals;
\* args.busy keeps the busy intervals of the first call
FeedFreeBlocksBack ==
  /\ pc = "done" /\ op = "_calculate_free_time_blocks"
  /\ op' = "_calculate_free_time_blocks(free_blocks)"
  /\ args' = [fn |-> args.fn, events |-> ret.value, busy |-> args.events]
  /\ ret' = Returned(_calculate_free_time_blocks(ret.value))
  /\ pc' = "done"
  /\ UNCHANGED <<initialized, client>>

\* get_calendar_events(), on the fallback events or on the provider's answer;
\* args.events holds the events the call worked on
GetCalendarEvents ==
  /\ pc = "idle"
  /\ \E env \in ProviderAnswers(args.events) :
       /\ (~initialized) => env.fetch = "raises"
       /\ op' = "get_calendar_events"
       /\ args' = [fn |-> "get_calendar_events",
                   events |-> IF initialized THEN _get_existing_events(Self, env)
                              ELSE FallbackEvents]
       /\ ret' = Returned(get_calendar_events(Self, env))
       /\ pc' = "done"
       /\ UNCHANGED <<initialized, client>>

NextFree == CalculateFreeTimeBlocks \/ FeedFreeBlocksBack \/ GetCalendarEvents

SpecFree == InitFree /\ [][NextFree]_vars

(* ----------------- properties of the free-time computation ------------ *)
\* the interval has a start and an end that parse to a datetime without zone
ParsesNaive(event) ==
  /\ {"start", "end"} \subseteq DOMAIN event
  /\ \A k \in {"start", "end"} :
       ~IsClock(event[k]) /\ event[k].form \in {"iso", "iso_z"}

\* the start and end texts of the blocks of a result
Boundaries(blocks) == [i \in 1..Len(blocks) |-> <<blocks[i].start, blocks[i].end>>]

\* the interval parses and lies on 2025-09-13 between 09:00 and midnight
OnTheDay(event) ==
  /\ ParsesNaive(event)
  /\ 9 * 60 <= event.start.t /\ event.start.t <= event.end.t /\ event.end.t < 1440

\* C12: when the free blocks of a call are handed back as busy intervals, the
\* free blocks of that second call reproduce the original busy intervals: for
\* busy intervals of one day, one of 30 minutes or more that lies between two
\* free blocks of the first call is a free block of the second
C12_RoundTripReproducesBusy ==
  (/\ Ended("_calculate_free_time_blocks(free_blocks)")
   /\ \A i \in 1..Len(args.busy) : OnTheDay(args.busy[i])) =>
    \A i \in 1..Len(args.busy) :
      LET busy == args.busy[i]
          free == args.events
      IN  (/\ ParsesNaive(busy)
           /\ busy.end.t - busy.start.t >= 30
           /\ \E a \in 1..Len(free) : free[a].end = strftime(busy.start.t)
           /\ \E b \in 1..Len(free) : free[b].start = strftime(busy.end.t))
          => \E k \in 1..Len(ret.value) :
               /\ ret.value[k].start = strftime(busy.start.t)
               /\ ret.value[k].end = strftime(busy.end.t)

\* the walk over intervals in start order that emits [cursor, start) for every
\* start at least 30 minutes after the cursor, and moves the cursor to
\* max(cursor, end) after each interval
RECURSIVE CursorWalk(_, _, _)
CursorWalk(intervals, cursor, emitted) ==
  IF intervals = <<>> THEN emitted
  ELSE LET start == Head(intervals).start.t
           end == Head(intervals).end.t
       IN  CursorWalk(Tail(intervals), IF end > cursor THEN end ELSE cursor,
                      IF start - cursor >= 30
                      THEN Append(emitted, <<strftime(cursor), strftime(start)>>)
                      ELSE emitted)

\* C17: for busy intervals that all parse, _calculate_free_time_blocks returns
\* the blocks of the cursor walk from 09:00 of the day: a block [cursor, start)
\* for every gap of at least 30 minutes, of whatever length, also beyond 24 hours
C17_CursorWalkAnyGap ==
  (/\ Ended("_calculate_free_time_blocks")
   /\ args.events # <<>>
   /\ \A i \in 1..Len(args.events) : ParsesNaive(args.events[i]))
  => Boundaries(ret.value) = CursorWalk(SortedByStart(<<>>, args.events), 9 * 60, <<>>)

\* the interval has a start or an end text that is present and does not parse
Unparsable(event) ==
  \E k \in {"start", "end"} \cap DOMAIN event :
    ~IsClock(event[k]) /\ event[k].form = "garbage"

\* the list without its k-th element
RemoveAt(list, k) == SubSeq(list, 1, k - 1) \o SubSeq(list, k + 1, Len(list))

\* C18: an interval with an unparsable start or end is skipped: the free blocks
\* of a list with such an interval (and at least one other) are those of the
\* list without it
C18_UnparsableIntervalSkipped ==
  (Ended("_calculate_free_time_blocks") /\ Len(args.events) >= 2) =>
    \A k \in 1..Len(args.events) :
      Unparsable(args.events[k])
        => ret.value = _calculate_free_time_blocks(RemoveAt(args.events, k))

\* the minutes after midnight a clock text 'HH:MM' names
ClockMinutes(text) == 60 * text.hh + text.mm

\* the free block, read as clock times of the day (through midnight when its
\* end is not after its start), shares a moment with the busy interval
Intersects(block, busy) ==
  LET a == ClockMinutes(block.start)
      b == ClockMinutes(block.end)
  IN  IF a < b THEN a < busy.end.t /\ busy.start.t < b
      ELSE a < busy.end.t \/ busy.start.t < b

FreeBlocksOfCall ==
  _calculate_free_time_blocks([i \in 1..Len(args.events) |-> ProcessedEvent(args.events[i])])

\* C30: without an initialised provider get_calendar_events returns the two
\* sample events with their free blocks, total_events and total_free_hours and
\* no 'error'; and whenever _calculate_free_time_blocks returns at least one
\* free block, the result holds those blocks and no 'error'
C30_CalendarEventsDegrade ==
  Ended("get_calendar_events") =>
    /\ ~initialized =>
         /\ "error" \notin DOMAIN ret.value
         /\ Len(ret.value.events) = 2
         /\ {"free_time_blocks", "total_events", "total_free_hours"} \subseteq DOMAIN ret.value
    /\ FreeBlocksOfCall # <<>> =>
         /\ "error" \notin DOMAIN ret.value
         /\ ret.value.free_time_blocks = FreeBlocksOfCall

====
